---- MODULE Spec2Model ----
(***************************************************************************)
(* A model of stacks-transactions-js: the contract ABI validator           *)
(* (src/contract-abi.ts: getTypeUnion, getTypeString, matchType,           *)
(* validateContractCall) and the transaction builders (estimate*,         *)
(* makeSTXTokenTransfer, makeSmartContractDeploy, makeContractCall).       *)
(*                                                                         *)
(* Three specifications share the module:                                  *)
(*   MatchSpec   matchType applied to one (value, ABI type) pair           *)
(*   Spec        validateContractCall run on one (payload, abi) pair       *)
(*   BuilderSpec one run of a transaction builder                          *)
(***************************************************************************)
EXTENDS Integers, Sequences, FiniteSets, TLC

VARIABLES
    \* ---- matchType applied to one pair
    cv,            \* the ClarityValue argument
    abiType,       \* the ClarityAbiType argument
    mpc,           \* "call" before the application, "done" after, "idle" if unused
    matched,       \* the boolean matchType returned
    \* ---- validateContractCall
    payload,       \* ContractCallPayload: functionName, functionArgs
    abi,           \* ClarityAbi: functions
    pc,            \* position in validateContractCall
    filtered,      \* the local `filtered`
    i,             \* the loop variable `i` (0-based, as in the code)
    examined,      \* the argument indices handed to matchType, in order
    countChecked,  \* whether the argument-count comparison has been evaluated
    result,        \* what validateContractCall returned or threw
    run,           \* 1 in the first call on a payload and ABI, 2 in a second one
    firstResult,   \* what the first call returned or threw, once a second has begun
    \* ---- transaction builders
    builder,       \* which builder runs
    options,       \* the caller's options
    bpc,           \* position in the builder
    transaction,   \* the StacksTransaction under construction
    feeRequests,   \* number of requests sent to the fee endpoint
    setFeeCalls,   \* number of transaction.setFee calls
    outcome,       \* how the builder's promise settled
    functionArgs,  \* the functionArgs handed to makeContractCall
    abiValidations,\* number of validateContractCall calls the builder made
    estimate,      \* what the estimate function computed from the endpoint's answer
    \* ---- encodeClarityValue
    input,         \* the first argument: a ClarityAbiType or a ClarityAbiTypeUnion
    valString,     \* the argument val: the string to encode, as its characters
    epc,           \* "call" before encodeClarityValue ran, "done" after
    encoded,       \* what encodeClarityValue returned or threw
    \* ---- multi-signer spending condition
    threshold,     \* signatures the condition requires
    fields,        \* its ordered fields: public keys and signatures
    appended,      \* every field ever appended, in the order of the appends
    terminal,      \* whether the condition has been finalized
    lastCall       \* the last operation on the condition and the error it raised

matchVars == <<cv, abiType, mpc, matched>>
validateVars == <<payload, abi, pc, filtered, i, examined, countChecked, result,
                  run, firstResult>>
builderVars == <<builder, options, bpc, transaction, feeRequests, setFeeCalls, outcome,
                 functionArgs, abiValidations, estimate>>
encodeVars == <<input, valString, epc, encoded>>
multiSigVars == <<threshold, fields, appended, terminal, lastCall>>
vars == <<matchVars, validateVars, builderVars, encodeVars, multiSigVars>>

(***************************************************************************)
(* Bounds of the explored inputs.                                          *)
(***************************************************************************)
MaxListLen == 2        \* list values and declared list lengths: 0..MaxListLen
MaxTupleEntries == 2   \* declared entries of an ABI tuple type
MaxBufLen == 2         \* buffer byte lengths and declared buffer lengths
MaxArgs == 2           \* arguments of a payload / of an ABI function
MaxFuncs == 2          \* functions of an ABI

\* Sequences over S of length 0..n
RECURSIVE SeqUpTo(_, _)
SeqUpTo(S, n) ==
    IF n = 0 THEN {<<>>}
    ELSE LET shorter == SeqUpTo(S, n - 1)
         IN  shorter \cup {Append(s, x) : s \in {t \in shorter : Len(t) = n - 1}, x \in S}

(***************************************************************************)
(* Clarity values (README "Constructing Clarity Values"; the classes live  *)
(* in ./clarity).  A value is a record with the field `type` and the       *)
(* fields matchType reads: buffer, value, list, data.                      *)
(***************************************************************************)
trueCV == [type |-> "BoolTrue"]
falseCV == [type |-> "BoolFalse"]
intCV(n) == [type |-> "Int", value |-> n]
uintCV(n) == [type |-> "UInt", value |-> n]
noneCV == [type |-> "OptionalNone"]
someCV(v) == [type |-> "OptionalSome", value |-> v]
responseOkCV(v) == [type |-> "ResponseOk", value |-> v]
responseErrorCV(v) == [type |-> "ResponseErr", value |-> v]
standardPrincipalCV == [type |-> "PrincipalStandard"]
contractPrincipalCV == [type |-> "PrincipalContract"]
\* a Buffer of n bytes: cv.buffer.length is Len(cv.buffer)
bufferCV(n) == [type |-> "Buffer", buffer |-> [k \in 1..n |-> 0]]
listCV(l) == [type |-> "List", list |-> l]
\* data is a function from the field names present to their values
tupleCV(data) == [type |-> "Tuple", data |-> data]

(***************************************************************************)
(* ABI types (contract-abi.ts 31-56).  A primitive, a string in the code,  *)
(* is wrapped as [primitive |-> s]; the others keep their JSON shape, so   *)
(* the isClarityAbi* tests are tests on the fields present.                *)
(***************************************************************************)
AbiPrimitive(s) == [primitive |-> s]
AbiBuffer(n) == [buffer |-> [length |-> n]]
AbiResponse(ok, err) == [response |-> [ok |-> ok, error |-> err]]
AbiOptional(t) == [optional |-> t]
AbiTuple(entries) == [tuple |-> entries]
AbiList(t, n) == [list |-> [type |-> t, length |-> n]]

ClarityAbiTypeUInt128 == 1
ClarityAbiTypeInt128 == 2
ClarityAbiTypeBool == 3
ClarityAbiTypePrincipal == 4
ClarityAbiTypeNone == 5
ClarityAbiTypeBuffer == 6
ClarityAbiTypeResponse == 7
ClarityAbiTypeOptional == 8
ClarityAbiTypeTuple == 9
ClarityAbiTypeList == 10

isClarityAbiPrimitive(val) == "primitive" \in DOMAIN val
isClarityAbiBuffer(val) == "buffer" \in DOMAIN val
isClarityAbiResponse(val) == "response" \in DOMAIN val
isClarityAbiOptional(val) == "optional" \in DOMAIN val
isClarityAbiTuple(val) == "tuple" \in DOMAIN val
isClarityAbiList(val) == "list" \in DOMAIN val

\* getTypeUnion: the type tagged with its ClarityAbiTypeId
getTypeUnion(val) ==
    IF isClarityAbiPrimitive(val) THEN
        CASE val.primitive = "uint128" -> [id |-> ClarityAbiTypeUInt128, type |-> val]
          [] val.primitive = "int128" -> [id |-> ClarityAbiTypeInt128, type |-> val]
          [] val.primitive = "bool" -> [id |-> ClarityAbiTypeBool, type |-> val]
          [] val.primitive = "principal" -> [id |-> ClarityAbiTypePrincipal, type |-> val]
          [] val.primitive = "none" -> [id |-> ClarityAbiTypeNone, type |-> val]
    ELSE IF isClarityAbiBuffer(val) THEN [id |-> ClarityAbiTypeBuffer, type |-> val]
    ELSE IF isClarityAbiResponse(val) THEN [id |-> ClarityAbiTypeResponse, type |-> val]
    ELSE IF isClarityAbiOptional(val) THEN [id |-> ClarityAbiTypeOptional, type |-> val]
    ELSE IF isClarityAbiTuple(val) THEN [id |-> ClarityAbiTypeTuple, type |-> val]
    ELSE [id |-> ClarityAbiTypeList, type |-> val]

\* the `(name type)` items of a tuple type joined by ' ' (map + join, line 187)
RECURSIVE getTypeString(_), joinTupleEntries(_, _)
joinTupleEntries(entries, k) ==
    IF k > Len(entries) THEN ""
    ELSE (IF k > 1 THEN " " ELSE "")
         \o "(" \o entries[k].name \o " " \o getTypeString(entries[k].type) \o ")"
         \o joinTupleEntries(entries, k + 1)

getTypeString(val) ==
    IF isClarityAbiPrimitive(val) THEN
        IF val.primitive = "int128" THEN "int"
        ELSE IF val.primitive = "uint128" THEN "uint"
        ELSE val.primitive
    ELSE IF isClarityAbiBuffer(val) THEN
        "(buff " \o ToString(val.buffer.length) \o ")"
    ELSE IF isClarityAbiResponse(val) THEN
        "(response " \o getTypeString(val.response.ok) \o " "
            \o getTypeString(val.response.error) \o ")"
    ELSE IF isClarityAbiOptional(val) THEN
        "(optional " \o getTypeString(val.optional) \o ")"
    ELSE IF isClarityAbiTuple(val) THEN
        "(tuple " \o joinTupleEntries(val.tuple, 1) \o ")"
    ELSE
        "(list " \o ToString(val.list.length) \o " " \o getTypeString(val.list.type) \o ")"

\* getCVTypeString of ./clarity, for the values a payload of the model carries:
\* the type string of the value, in the vocabulary of getTypeString
getCVTypeString(val) ==
    CASE val.type \in {"BoolTrue", "BoolFalse"} -> "bool"
      [] val.type = "Int" -> "int"
      [] val.type = "UInt" -> "uint"
      [] val.type = "Buffer" -> "(buff " \o ToString(Len(val.buffer)) \o ")"
      [] val.type \in {"PrincipalStandard", "PrincipalContract"} -> "principal"
      [] OTHER -> "(" \o val.type \o ")"

(***************************************************************************)
(* matchType (contract-abi.ts 249-318)                                     *)
(***************************************************************************)
\* lines 262-263: union.type.buffer.length === cv.buffer.length
bufferLengthAtMost(declared, actual) == actual <= declared
bufferLengthMatches(declared, actual) == declared = actual

\* line 291: union.type.list.length === cv.list.length
listLengthAtMost(declared, actual) == actual <= declared
listLengthMatches(declared, actual) == declared = actual

\* _.cloneDeep(cv.data): a private copy with the same fields and values
cloneDeep(data) == [k \in DOMAIN data |-> data[k]]
\* delete tuple[key]
deleteKey(tuple, key) == [k \in DOMAIN tuple \ {key} |-> tuple[k]]

\* lines 265-269: what an OptionalNone value is accepted against
optionalNoneMatchesNoneOnly(id) == id = ClarityAbiTypeNone
optionalNoneMatches(id) ==
    \/ id = ClarityAbiTypeNone
    \/ id = ClarityAbiTypeOptional

\* lines 278 and 283: the declared type a response value's inner value is
\* checked against
responseErrBranch(response) == response.error
responseOkBranchReadsError(response) == response.error
responseOkBranch(response) == response.ok

RECURSIVE matchType(_, _), matchTupleEntries(_, _, _)
\* the for loop of lines 297-313 from index idx on, over the working copy `tuple`
matchTupleEntries(tuple, entries, idx) ==
    IF ~(idx < Len(entries)) THEN TRUE
    ELSE LET abiTupleEntry == entries[idx + 1]
             key == abiTupleEntry.name
         IN  IF key \in DOMAIN tuple
             THEN IF ~matchType(tuple[key], abiTupleEntry.type)
                  THEN FALSE
                  ELSE matchTupleEntries(deleteKey(tuple, key), entries, idx + 1)
             ELSE FALSE

matchType(val, type) ==
    LET union == getTypeUnion(type)
    IN  CASE val.type \in {"BoolTrue", "BoolFalse"} -> union.id = ClarityAbiTypeBool
          [] val.type = "Int" -> union.id = ClarityAbiTypeInt128
          [] val.type = "UInt" -> union.id = ClarityAbiTypeUInt128
          [] val.type = "Buffer" ->
                /\ union.id = ClarityAbiTypeBuffer
                /\ bufferLengthMatches(union.type.buffer.length, Len(val.buffer))
          [] val.type = "OptionalNone" -> optionalNoneMatches(union.id)
          [] val.type = "OptionalSome" ->
                /\ union.id = ClarityAbiTypeOptional
                /\ matchType(val.value, union.type.optional)
          [] val.type = "ResponseErr" ->
                /\ union.id = ClarityAbiTypeResponse
                /\ matchType(val.value, responseErrBranch(union.type.response))
          [] val.type = "ResponseOk" ->
                /\ union.id = ClarityAbiTypeResponse
                /\ matchType(val.value, responseOkBranch(union.type.response))
          [] val.type \in {"PrincipalContract", "PrincipalStandard"} ->
                union.id = ClarityAbiTypePrincipal
          [] val.type = "List" ->
                /\ union.id = ClarityAbiTypeList
                /\ listLengthMatches(union.type.list.length, Len(val.list))
                /\ \A k \in 1..Len(val.list) : matchType(val.list[k], union.type.list.type)
          [] val.type = "Tuple" ->
                IF union.id = ClarityAbiTypeTuple
                THEN matchTupleEntries(cloneDeep(val.data), union.type.tuple, 0)
                ELSE FALSE   \* falls through to `default`
          [] OTHER -> FALSE

\* line 295: const tuple = _.cloneDeep(cv.data).  The object the loop reads
\* and deletes from, and whether that object is the argument's own cv.data.
workingTupleAliased(data) == [object |-> data, isArgumentData |-> TRUE]
workingTuple(data) == [object |-> cloneDeep(data), isArgumentData |-> FALSE]

\* the working object when the loop of lines 296-310 has ended or returned,
\* from index idx on: an entry that matched has been deleted
RECURSIVE tupleAfterEntries(_, _, _)
tupleAfterEntries(tuple, entries, idx) ==
    IF ~(idx < Len(entries)) THEN tuple
    ELSE LET abiTupleEntry == entries[idx + 1]
             key == abiTupleEntry.name
         IN  IF key \in DOMAIN tuple /\ matchType(tuple[key], abiTupleEntry.type)
             THEN tupleAfterEntries(deleteKey(tuple, key), entries, idx + 1)
             ELSE tuple

\* the argument cv as matchType(cv, abiType) leaves it.  The only assignment in
\* matchType is the delete of line 306; the other cases reach it through the
\* calls they make on their inner values, _.every stopping at the first element
\* that does not match.
RECURSIVE valueAfterMatchType(_, _)
valueAfterMatchType(val, type) ==
    LET union == getTypeUnion(type)
    IN  CASE val.type = "Tuple" /\ union.id = ClarityAbiTypeTuple ->
                LET working == workingTuple(val.data)
                IN  IF working.isArgumentData
                    THEN [val EXCEPT !.data =
                             tupleAfterEntries(working.object, union.type.tuple, 0)]
                    ELSE val
          [] val.type = "OptionalSome" /\ union.id = ClarityAbiTypeOptional ->
                [val EXCEPT !.value = valueAfterMatchType(val.value, union.type.optional)]
          [] val.type = "ResponseErr" /\ union.id = ClarityAbiTypeResponse ->
                [val EXCEPT !.value =
                    valueAfterMatchType(val.value, responseErrBranch(union.type.response))]
          [] val.type = "ResponseOk" /\ union.id = ClarityAbiTypeResponse ->
                [val EXCEPT !.value =
                    valueAfterMatchType(val.value, responseOkBranch(union.type.response))]
          [] /\ val.type = "List"
             /\ union.id = ClarityAbiTypeList
             /\ listLengthMatches(union.type.list.length, Len(val.list)) ->
                [val EXCEPT !.list =
                    [k \in 1..Len(val.list) |->
                        IF \A j \in 1..(k - 1) : matchType(val.list[j], union.type.list.type)
                        THEN valueAfterMatchType(val.list[k], union.type.list.type)
                        ELSE val.list[k]]]
          [] OTHER -> val

(***************************************************************************)
(* The values and types matchType is applied to.                           *)
(***************************************************************************)
TupleNames == {"a", "b", "c"}
\* children of composite values, and the types declared for children
ChildValues == {trueCV, intCV(1), uintCV(1), noneCV}
ChildTypes == {AbiPrimitive("bool"), AbiPrimitive("int128"),
               AbiPrimitive("uint128"), AbiOptional(AbiPrimitive("bool"))}

TupleDatas ==
    UNION {[names -> ChildValues \ {noneCV}] : names \in SUBSET TupleNames}
TupleEntries == {[name |-> n, type |-> t] : n \in TupleNames, t \in ChildTypes \ {AbiOptional(AbiPrimitive("bool"))}}

MatchValues ==
    {trueCV, falseCV, intCV(10), uintCV(10), noneCV, standardPrincipalCV, contractPrincipalCV}
    \cup {bufferCV(n) : n \in 0..MaxBufLen}
    \cup {someCV(v) : v \in ChildValues}
    \cup {responseOkCV(v) : v \in ChildValues}
    \cup {responseErrorCV(v) : v \in ChildValues}
    \cup {listCV(l) : l \in SeqUpTo(ChildValues, MaxListLen)}
    \cup {tupleCV(d) : d \in TupleDatas}

MatchTypes ==
    {AbiPrimitive(s) : s \in {"uint128", "int128", "bool", "principal", "none"}}
    \cup {AbiBuffer(n) : n \in 0..MaxBufLen}
    \cup {AbiOptional(t) : t \in ChildTypes}
    \cup {AbiResponse(ok, err) : ok \in ChildTypes, err \in ChildTypes}
    \cup {AbiList(t, n) : t \in ChildTypes, n \in 0..MaxListLen}
    \cup {AbiTuple(es) : es \in SeqUpTo(TupleEntries, MaxTupleEntries)}

(***************************************************************************)
(* Values of the variables of a part of the library that a specification   *)
(* does not run.                                                           *)
(***************************************************************************)
MatchIdle ==
    /\ cv = noneCV
    /\ abiType = AbiPrimitive("none")
    /\ mpc = "idle"
    /\ matched = FALSE

ValidateIdle ==
    /\ payload = [functionName |-> "", functionArgs |-> <<>>]
    /\ abi = [functions |-> <<>>]
    /\ pc = "idle"
    /\ filtered = <<>>
    /\ i = 0
    /\ examined = <<>>
    /\ countChecked = FALSE
    /\ result = [kind |-> "pending"]
    /\ run = 1
    /\ firstResult = [kind |-> "pending"]

BuilderIdle ==
    /\ builder = "none"
    /\ options = [defined |-> FALSE, object |-> <<>>]
    /\ bpc = "idle"
    /\ transaction = [built |-> FALSE]
    /\ feeRequests = 0
    /\ setFeeCalls = 0
    /\ outcome = [state |-> "pending"]
    /\ functionArgs = <<>>
    /\ abiValidations = 0
    /\ estimate = [answered |-> FALSE]

EncodeIdle ==
    /\ input = AbiPrimitive("none")
    /\ valString = <<>>
    /\ epc = "idle"
    /\ encoded = [kind |-> "none"]

MultiSigIdle ==
    /\ threshold = 0
    /\ fields = <<>>
    /\ appended = <<>>
    /\ terminal = FALSE
    /\ lastCall = [operation |-> "", error |-> ""]

(***************************************************************************)
(* MatchSpec: matchType applied to a value and a type.                     *)
(***************************************************************************)
MatchInit ==
    /\ cv \in MatchValues
    /\ abiType \in MatchTypes
    /\ mpc = "call"
    /\ matched = FALSE
    /\ ValidateIdle
    /\ BuilderIdle
    /\ EncodeIdle
    /\ MultiSigIdle

ApplyMatchType ==
    /\ mpc = "call"
    /\ matched' = matchType(cv, abiType)
    /\ cv' = valueAfterMatchType(cv, abiType)
    /\ mpc' = "done"
    /\ UNCHANGED <<abiType, validateVars, builderVars, encodeVars, multiSigVars>>

MatchNext == ApplyMatchType

MatchSpec == MatchInit /\ [][MatchNext]_vars

(***************************************************************************)
(* Spec: validateContractCall (contract-abi.ts 328-360), one step per      *)
(* check it evaluates.                                                     *)
(***************************************************************************)
\* argument types an ABI function of the model declares, and argument values
ArgTypes == {AbiPrimitive("uint128"), AbiPrimitive("bool"), AbiBuffer(MaxBufLen)}
ArgValues == {uintCV(10), intCV(10), trueCV, bufferCV(MaxBufLen), bufferCV(MaxBufLen - 1)}
FunctionNames == {"f", "g"}
\* the function the model's payloads call
CalledName == "f"
\* what the functions not named CalledName declare
OtherSignatures == {<<>>, <<AbiPrimitive("bool")>>}

AbiArgs(types) == [k \in 1..Len(types) |-> [name |-> "arg", type |-> types[k]]]
AbiFunction(name, types) == [name |-> name, access |-> "public", args |-> AbiArgs(types)]

\* the errors validateContractCall throws, with the values their messages carry
FunctionNotFound(name) == [kind |-> "error", error |-> "FunctionNotFound", functionName |-> name]
MalformedAbi(name) == [kind |-> "error", error |-> "MalformedAbi", functionName |-> name]
\* lines 335-337: `expects ${abiArgs.length} argument(s) but received ${payload.functionArgs.length}`
ArgumentCountErrorSwapped(expected, received) ==
    [kind |-> "error", error |-> "ArgumentCount", expected |-> received, received |-> expected]
ArgumentCountError(expected, received) ==
    [kind |-> "error", error |-> "ArgumentCount", expected |-> expected, received |-> received]
\* line 346: `argument ${i + 1}`
argumentNumberZeroBased(idx) == idx
argumentNumber(idx) == idx + 1
\* lines 345-348
ArgumentTypeError(name, idx, abiArgType, payloadArg) ==
    [kind |-> "error", error |-> "ArgumentType", functionName |-> name,
     argument |-> argumentNumber(idx),
     expected |-> getTypeString(abiArgType),
     actual |-> getCVTypeString(payloadArg)]

ValidateInit ==
    /\ \E names \in SeqUpTo(FunctionNames, MaxFuncs),
          types \in SeqUpTo(ArgTypes, MaxArgs),
          others \in OtherSignatures :
            abi = [functions |->
                     [k \in 1..Len(names) |->
                        AbiFunction(names[k],
                                    IF names[k] = CalledName THEN types ELSE others)]]
    /\ \E args \in SeqUpTo(ArgValues, MaxArgs) :
            payload = [functionName |-> [content |-> CalledName], functionArgs |-> args]
    /\ pc = "filter"
    /\ filtered = <<>>
    /\ i = 0
    /\ examined = <<>>
    /\ countChecked = FALSE
    /\ result = [kind |-> "pending"]
    /\ run = 1
    /\ firstResult = [kind |-> "pending"]
    /\ MatchIdle
    /\ BuilderIdle
    /\ EncodeIdle
    /\ MultiSigIdle

NameMatches(fn) == fn.name = payload.functionName.content

\* lines 329-330 and 353-359: filter by name, branch on filtered.length
FilterFunctionsFirstWins ==
    /\ pc = "filter"
    /\ LET found == SelectSeq(abi.functions, NameMatches)
       IN  /\ filtered' = found
           /\ IF Len(found) >= 1
              THEN pc' = "count" /\ result' = result
              ELSE /\ pc' = "thrown"
                   /\ result' = FunctionNotFound(payload.functionName.content)
    /\ UNCHANGED <<payload, abi, i, examined, countChecked, matchVars, builderVars,
                   encodeVars, multiSigVars, run, firstResult>>

FilterFunctions ==
    /\ pc = "filter"
    /\ LET found == SelectSeq(abi.functions, NameMatches)
       IN  /\ filtered' = found
           /\ IF Len(found) = 1
              THEN pc' = "count" /\ result' = result
              ELSE IF Len(found) = 0
              THEN /\ pc' = "thrown"
                   /\ result' = FunctionNotFound(payload.functionName.content)
              ELSE /\ pc' = "thrown"
                   /\ result' = MalformedAbi(payload.functionName.content)
    /\ UNCHANGED <<payload, abi, i, examined, countChecked, matchVars, builderVars,
                   encodeVars, multiSigVars, run, firstResult>>

\* lines 331-338
CheckArgumentCount ==
    /\ pc = "count"
    /\ countChecked' = TRUE
    /\ LET abiArgs == filtered[1].args
       IN  IF Len(payload.functionArgs) # Len(abiArgs)
           THEN /\ pc' = "thrown"
                /\ result' = ArgumentCountError(Len(abiArgs), Len(payload.functionArgs))
           ELSE /\ pc' = "loop"
                /\ result' = result
    /\ i' = 0
    /\ UNCHANGED <<payload, abi, filtered, examined, matchVars, builderVars,
                   encodeVars, multiSigVars, run, firstResult>>

\* line 340: i < payload.functionArgs.length
loopContinuesSkippingLast(idx, n) == idx < n - 1
loopContinues(idx, n) == idx < n

\* lines 340-350, one iteration; a mismatch that is not the last argument's
\* does not stop this variant
MatchArgumentKeepsGoing ==
    /\ pc = "loop"
    /\ loopContinues(i, Len(payload.functionArgs))
    /\ LET payloadArg == payload.functionArgs[i + 1]
           abiArg == filtered[1].args[i + 1]
       IN  /\ examined' = Append(examined, i)
           /\ payload' = [payload EXCEPT !.functionArgs[i + 1] =
                                            valueAfterMatchType(payloadArg, abiArg.type)]
           /\ IF ~matchType(payloadArg, abiArg.type) /\ i + 1 = Len(payload.functionArgs)
              THEN /\ pc' = "thrown"
                   /\ result' = ArgumentTypeError(payload.functionName.content, i,
                                                  abiArg.type, payloadArg)
                   /\ i' = i
              ELSE /\ pc' = pc
                   /\ result' = result
                   /\ i' = i + 1
    /\ UNCHANGED <<abi, filtered, countChecked, matchVars, builderVars,
                   encodeVars, multiSigVars, run, firstResult>>

\* lines 340-350, one iteration of the loop
MatchArgument ==
    /\ pc = "loop"
    /\ loopContinues(i, Len(payload.functionArgs))
    /\ LET payloadArg == payload.functionArgs[i + 1]
           abiArg == filtered[1].args[i + 1]
       IN  /\ examined' = Append(examined, i)
           /\ payload' = [payload EXCEPT !.functionArgs[i + 1] =
                                            valueAfterMatchType(payloadArg, abiArg.type)]
           /\ IF ~matchType(payloadArg, abiArg.type)
              THEN /\ pc' = "thrown"
                   /\ result' = ArgumentTypeError(payload.functionName.content, i,
                                                  abiArg.type, payloadArg)
                   /\ i' = i
              ELSE /\ pc' = pc
                   /\ result' = result
                   /\ i' = i + 1
    /\ UNCHANGED <<abi, filtered, countChecked, matchVars, builderVars,
                   encodeVars, multiSigVars, run, firstResult>>

\* line 352: the loop ran to its end
ReturnTrue ==
    /\ pc = "loop"
    /\ ~loopContinues(i, Len(payload.functionArgs))
    /\ pc' = "returned"
    /\ result' = [kind |-> "true"]
    /\ UNCHANGED <<payload, abi, filtered, i, examined, countChecked, matchVars, builderVars,
                   encodeVars, multiSigVars, run, firstResult>>

Next ==
    \/ FilterFunctions
    \/ CheckArgumentCount
    \/ MatchArgument
    \/ ReturnTrue

Init == ValidateInit

Spec == Init /\ [][Next]_vars

\* validateContractCall has returned or thrown
Finished == pc \in {"returned", "thrown"}

(***************************************************************************)
(* RepeatSpec: validateContractCall called, and then called a second time  *)
(* with the same payload and ABI objects, as the first call left them.     *)
(***************************************************************************)
MaxCopies == 2    \* ABI functions carrying the called name: 0..MaxCopies

RepeatTupleDatas ==
    {[n \in {"a"} |-> uintCV(1)],
     [n \in {"a"} |-> intCV(1)],
     [n \in {"a", "b"} |-> IF n = "a" THEN uintCV(1) ELSE trueCV]}
RepeatArgValues ==
    {tupleCV(d) : d \in RepeatTupleDatas}
    \cup {someCV(tupleCV([n \in {"a", "b"} |-> IF n = "a" THEN uintCV(1) ELSE trueCV]))}
RepeatTupleTypes ==
    {AbiTuple(<<[name |-> "a", type |-> AbiPrimitive("uint128")]>>),
     AbiTuple(<<[name |-> "a", type |-> AbiPrimitive("uint128")],
                [name |-> "b", type |-> AbiPrimitive("bool")]>>)}
RepeatArgTypes ==
    RepeatTupleTypes
    \cup {AbiOptional(AbiTuple(<<[name |-> "a", type |-> AbiPrimitive("uint128")]>>))}

RepeatInit ==
    /\ \E types \in SeqUpTo(RepeatArgTypes, MaxArgs), copies \in 0..MaxCopies :
            abi = [functions |-> [k \in 1..copies |-> AbiFunction(CalledName, types)]]
    /\ \E args \in SeqUpTo(RepeatArgValues, MaxArgs) :
            payload = [functionName |-> [content |-> CalledName], functionArgs |-> args]
    /\ pc = "filter"
    /\ filtered = <<>>
    /\ i = 0
    /\ examined = <<>>
    /\ countChecked = FALSE
    /\ result = [kind |-> "pending"]
    /\ run = 1
    /\ firstResult = [kind |-> "pending"]
    /\ MatchIdle
    /\ BuilderIdle
    /\ EncodeIdle
    /\ MultiSigIdle

\* the caller keeps what the first call returned or threw and calls again
ValidateAgain ==
    /\ Finished
    /\ run = 1
    /\ firstResult' = result
    /\ run' = run + 1
    /\ pc' = "filter"
    /\ filtered' = <<>>
    /\ i' = 0
    /\ examined' = <<>>
    /\ countChecked' = FALSE
    /\ result' = [kind |-> "pending"]
    /\ UNCHANGED <<payload, abi, matchVars, builderVars, encodeVars, multiSigVars>>

RepeatNext ==
    \/ FilterFunctions
    \/ CheckArgumentCount
    \/ MatchArgument
    \/ ReturnTrue
    \/ ValidateAgain

RepeatSpec == RepeatInit /\ [][RepeatNext]_vars

(***************************************************************************)
(* BuilderSpec: one run of makeSTXTokenTransfer, makeSmartContractDeploy   *)
(* or makeContractCall (lines 126-187, 262-320, 399-467 of the builders),  *)
(* or one direct call of estimateTransfer, estimateContractDeploy or       *)
(* estimateContractFunctionCall (lines 62-85, 221-249, 354-382).           *)
(***************************************************************************)
MaxFee == 1              \* fees a caller supplies: 0..MaxFee
MaxFeeRate == 2          \* fee rates the endpoint answers: 0..MaxFeeRate
MaxPostConditions == 2   \* post-conditions a caller supplies

Builders == {"makeSTXTokenTransfer", "makeSmartContractDeploy", "makeContractCall"}
Estimators == {"estimateTransfer", "estimateContractDeploy", "estimateContractFunctionCall"}
PayloadTypes == {"TokenTransfer", "SmartContract", "ContractCall"}
AnchorModes == {"OnChainOnly", "OffChainOnly", "Any"}
PostConditions == {"stxPostCondition", "fungiblePostCondition"}
\* the sender key of the run, a valid private key
SenderKey == "senderKey"

\* the ABI a caller of makeContractCall passes as validateWithAbi (README
\* 104-126), and the argument lists the model's calls carry
CallAbi ==
    [functions |-> <<AbiFunction(CalledName, <<AbiPrimitive("uint128"), AbiPrimitive("bool")>>)>>]
CallArguments == {<<uintCV(10), trueCV>>, <<intCV(10), trueCV>>}

\* the option objects a caller passes: any subset of the properties set
OptionProps ==
    [fee : {{}} \cup {{n} : n \in 0..MaxFee},
     nonce : {{}, {1}},
     anchorMode : {{}} \cup {{m} : m \in AnchorModes},
     postConditions : {{}} \cup {{l} : l \in SeqUpTo(PostConditions, MaxPostConditions)}]
Present(props) == {k \in DOMAIN props : props[k] # {}}
\* the object with the properties that are set
AsObject(props) == [k \in Present(props) |-> CHOOSE v \in props[k] : TRUE]
OptionObjects == {AsObject(p) : p \in OptionProps}
\* the object o with the property validateWithAbi added
WithAbi(o) ==
    [k \in DOMAIN o \cup {"validateWithAbi"} |-> IF k = "validateWithAbi" THEN CallAbi ELSE o[k]]

\* the payload each builder creates (create*Payload of ./payload)
PayloadTypeOf(b) ==
    CASE b = "makeSTXTokenTransfer" -> "TokenTransfer"
      [] b = "makeSmartContractDeploy" -> "SmartContract"
      [] b = "makeContractCall" -> "ContractCall"

\* lines 132-141, 268-276, 407-415
defaultOptions == [fee |-> 0, nonce |-> 0, anchorMode |-> "Any", postConditionMode |-> "Deny"]

\* Object.assign(target, source): target with source's own properties written
\* over it; an undefined source changes nothing
ObjectAssign(target, source) ==
    IF ~source.defined THEN target
    ELSE [k \in DOMAIN target \cup DOMAIN source.object |->
            IF k \in DOMAIN source.object THEN source.object[k] ELSE target[k]]

\* lines 143, 278, 417: const normalizedOptions = Object.assign(defaultOptions,
\* options).  Object.assign writes into its target and returns it: afterwards
\* defaultOptions and normalizedOptions are the same, merged, object.
assignIntoCopy(defaults, opts) ==
    [defaultOptions |-> defaults, normalizedOptions |-> ObjectAssign(defaults, opts)]
assignIntoDefaults(defaults, opts) ==
    [defaultOptions |-> ObjectAssign(defaults, opts),
     normalizedOptions |-> ObjectAssign(defaults, opts)]

\* lines 172, 307, 451: the anchor mode handed to the StacksTransaction;
\* makeSTXTokenTransfer reads it from defaultOptions, the others from
\* normalizedOptions
anchorModeArgument(b, assigned) ==
    IF b = "makeSTXTokenTransfer"
    THEN assigned.defaultOptions.anchorMode
    ELSE assigned.normalizedOptions.anchorMode

\* lines 176, 311, 455: !options?.fee -- a BigNum, zero included, is an object
\* and truthy, so the test is on the property being present
feeMissing(opts) == ~opts.defined \/ "fee" \notin DOMAIN opts.object

\* lines 158-163: the post-conditions pushed one by one into a new array
collectPostConditionsReversed(normalizedOptions) ==
    IF "postConditions" \in DOMAIN normalizedOptions /\ Len(normalizedOptions.postConditions) > 0
    THEN [k \in 1..Len(normalizedOptions.postConditions) |->
            normalizedOptions.postConditions[Len(normalizedOptions.postConditions) + 1 - k]]
    ELSE <<>>
collectPostConditions(normalizedOptions) ==
    IF "postConditions" \in DOMAIN normalizedOptions /\ Len(normalizedOptions.postConditions) > 0
    THEN [k \in 1..Len(normalizedOptions.postConditions) |-> normalizedOptions.postConditions[k]]
    ELSE <<>>

\* lines 150-156: the spending condition with the nonce and fee of the options,
\* in an authorization that carries no signature yet
newAuthorizationSigned(nonce, fee) ==
    [nonce |-> nonce, fee |-> fee, signed |-> TRUE, signedBy |-> SenderKey,
     signedFee |-> fee, signedNonce |-> nonce]
newAuthorization(nonce, fee) ==
    [nonce |-> nonce, fee |-> fee, signed |-> FALSE, signedBy |-> "",
     signedFee |-> 0, signedNonce |-> 0]

\* new StacksTransaction(...) (lines 166-174)
StacksTransaction(payloadType, authorization, postConditions, postConditionMode, anchorMode) ==
    [built |-> TRUE,
     payloadType |-> payloadType,
     nonce |-> authorization.nonce,
     fee |-> authorization.fee,
     postConditions |-> postConditions,
     postConditionMode |-> postConditionMode,
     anchorMode |-> anchorMode,
     signed |-> authorization.signed,
     signedBy |-> authorization.signedBy,
     signedFee |-> authorization.signedFee,
     signedNonce |-> authorization.signedNonce]

\* transaction.serialize() of ./transaction, as the sequence of the fields the
\* envelope emits in order; its length stands for serialize().byteLength
serialize(tx) ==
    <<"version", "chainId", "authorization", "anchorMode", "postConditionMode",
      "postConditionCount">> \o tx.postConditions \o <<"payloadType", "payload">>
byteLength(tx) == Len(serialize(tx))

\* lines 81-83: feeRate.mul(txBytes)
estimateFeeRateOnly(feeRate, txBytes) == feeRate
estimateFee(feeRate, txBytes) == feeRate * txBytes

\* the caller's options: makeContractCall may also be handed validateWithAbi
OptionsFor(b) ==
    {[defined |-> FALSE, object |-> <<>>]}
    \cup {[defined |-> TRUE, object |-> o] : o \in OptionObjects}
    \cup IF b = "makeContractCall"
         THEN {[defined |-> TRUE, object |-> WithAbi(o)] : o \in OptionObjects}
         ELSE {}

\* a builder is called with its options
BuilderCalled ==
    /\ builder \in Builders
    /\ options \in OptionsFor(builder)
    /\ functionArgs \in IF builder = "makeContractCall" THEN CallArguments ELSE {<<>>}
    /\ bpc = "start"
    /\ transaction = [built |-> FALSE]

\* an estimate function is called directly with an unsigned transaction
EstimatorCalled ==
    /\ builder \in Estimators
    /\ options = [defined |-> FALSE, object |-> <<>>]
    /\ functionArgs = <<>>
    /\ bpc = "built"
    /\ \E payloadType \in PayloadTypes, pcs \in SeqUpTo(PostConditions, MaxPostConditions) :
          transaction = StacksTransaction(payloadType, newAuthorization(0, 0), pcs, "Deny", "Any")

BuilderInit ==
    /\ BuilderCalled \/ EstimatorCalled
    /\ feeRequests = 0
    /\ setFeeCalls = 0
    /\ outcome = [state |-> "pending"]
    /\ abiValidations = 0
    /\ estimate = [answered |-> FALSE]
    /\ MatchIdle
    /\ ValidateIdle
    /\ EncodeIdle
    /\ MultiSigIdle

\* lines 132-174, 268-309, 407-453: normalise the options, create the payload,
\* the spending condition and the unsigned transaction.  No builder reads a
\* validateWithAbi option or calls validateContractCall.
BuildTransaction ==
    /\ bpc = "start"
    /\ LET assigned == assignIntoDefaults(defaultOptions, options)
           normalizedOptions == assigned.normalizedOptions
       IN  transaction' =
               StacksTransaction(PayloadTypeOf(builder),
                                 newAuthorization(normalizedOptions.nonce, normalizedOptions.fee),
                                 collectPostConditions(normalizedOptions),
                                 normalizedOptions.postConditionMode,
                                 anchorModeArgument(builder, assigned))
    /\ bpc' = "built"
    /\ UNCHANGED <<builder, options, feeRequests, setFeeCalls, outcome, functionArgs,
                   abiValidations, estimate, matchVars, validateVars,
                   encodeVars, multiSigVars>>

\* lines 72-74, 234-236, 367-369: the guard every estimate function starts with
isTokenTransferAlways(tx) == TRUE
isTokenTransfer(tx) == tx.payloadType = "TokenTransfer"

\* lines 176-177, 311-312, 455-456 and estimate* up to fetchPrivate: with no fee
\* option the estimate function is called; it throws for a payload that is not
\* a token transfer and otherwise sends the fee request
CallEstimate ==
    /\ bpc = "built"
    /\ feeMissing(options)
    /\ IF ~isTokenTransfer(transaction)
       THEN /\ bpc' = "done"
            /\ outcome' = [state |-> "rejected", error |-> "Transaction is not a token transfer"]
            /\ feeRequests' = feeRequests
       ELSE /\ bpc' = "awaiting"
            /\ outcome' = outcome
            /\ feeRequests' = feeRequests + 1
    /\ UNCHANGED <<builder, options, transaction, setFeeCalls, functionArgs,
                   abiValidations, estimate, matchVars, validateVars,
                   encodeVars, multiSigVars>>

\* a fee option is given: no estimate
SkipEstimate ==
    /\ bpc = "built"
    /\ ~feeMissing(options)
    /\ bpc' = "sign"
    /\ UNCHANGED <<builder, options, transaction, feeRequests, setFeeCalls, outcome,
                   functionArgs, abiValidations, estimate, matchVars, validateVars,
                   encodeVars, multiSigVars>>

\* lines 79-84 (244-248, 377-381): the endpoint answers a fee rate and the
\* estimate resolves to rate * serialized length; a builder then stores it with
\* setFee (lines 178, 313, 460), a direct caller receives it
FeeResponse ==
    /\ bpc = "awaiting"
    /\ \E feeRate \in 0..MaxFeeRate :
          LET txBytes == byteLength(transaction)
              txFee == estimateFee(feeRate, txBytes)
          IN  /\ estimate' = [answered |-> TRUE, feeRate |-> feeRate, txBytes |-> txBytes,
                              txFee |-> txFee, feeBefore |-> transaction.fee,
                              signedBefore |-> transaction.signed]
              /\ IF builder \in Builders
                 THEN /\ transaction' = [transaction EXCEPT !.fee = txFee]
                      /\ setFeeCalls' = setFeeCalls + 1
                      /\ bpc' = "sign"
                      /\ outcome' = outcome
                 ELSE /\ transaction' = transaction
                      /\ setFeeCalls' = setFeeCalls
                      /\ bpc' = "done"
                      /\ outcome' = [state |-> "resolved", value |-> txFee]
    /\ UNCHANGED <<builder, options, feeRequests, functionArgs, abiValidations,
                   matchVars, validateVars,
                   encodeVars, multiSigVars>>

\* the fee request fails: the awaited promise rejects and so does the builder
FetchFails ==
    /\ bpc = "awaiting"
    /\ bpc' = "done"
    /\ outcome' = [state |-> "rejected", error |-> "fee request failed"]
    /\ UNCHANGED <<builder, options, transaction, feeRequests, setFeeCalls, functionArgs,
                   abiValidations, estimate, matchVars, validateVars,
                   encodeVars, multiSigVars>>

\* lines 181-186, 316-319, 463-466: sign as origin with the sender key, return
SignOrigin ==
    /\ bpc = "sign"
    /\ transaction' = [transaction EXCEPT !.signed = TRUE,
                                          !.signedBy = SenderKey,
                                          !.signedFee = transaction.fee,
                                          !.signedNonce = transaction.nonce]
    /\ bpc' = "done"
    /\ outcome' = [state |-> "resolved"]
    /\ UNCHANGED <<builder, options, feeRequests, setFeeCalls, functionArgs,
                   abiValidations, estimate, matchVars, validateVars,
                   encodeVars, multiSigVars>>

BuilderNext ==
    \/ BuildTransaction
    \/ CallEstimate
    \/ SkipEstimate
    \/ FeeResponse
    \/ FetchFails
    \/ SignOrigin

BuilderSpec == BuilderInit /\ [][BuilderNext]_vars

(***************************************************************************)
(* EncodeSpec: one call of encodeClarityValue (contract-abi.ts 126-170).   *)
(* A string is the sequence of its characters.                             *)
(***************************************************************************)
MaxStringLen == 2    \* strings over Alphabet of up to this many characters

Alphabet == {"0", "1", "."}
Digits == {"0", "1", "2", "3", "4", "5", "6", "7", "8", "9"}
\* the strings the bool case compares with (lines 144-145)
StringFalse == <<"f", "a", "l", "s", "e">>
StringTrue == <<"t", "r", "u", "e">>
StringZero == <<"0">>
StringOne == <<"1">>

EncodeStrings ==
    {StringFalse, StringTrue,
     <<"T", "r", "u", "e">>, <<"2">>, <<"-", "5">>, <<"S", "P">>,
     <<"S", "P", ".", "c">>, <<"a", ".", "b", ".", "c">>}
    \cup SeqUpTo(Alphabet, MaxStringLen)

\* the first argument: an ABI type, or the union getTypeUnion makes of one
EncodeInputs == MatchTypes \cup {getTypeUnion(t) : t \in MatchTypes}

Returns(value, arguments) == [kind |-> "value", value |-> value, arguments |-> arguments]
Throws(error, message) == [kind |-> "throw", error |-> error, message |-> message]

\* val.includes('.')
includes(s, ch) == \E k \in 1..Len(s) : s[k] = ch
\* the position of the first ch in s from position k on, Len(s) + 1 when none
RECURSIVE indexFrom(_, _, _)
indexFrom(s, ch, k) ==
    IF k > Len(s) THEN Len(s) + 1
    ELSE IF s[k] = ch THEN k
    ELSE indexFrom(s, ch, k + 1)
\* const [addr, name] = val.split('.'): the first two pieces (line 149)
splitFirstTwo(s) ==
    LET first == indexFrom(s, ".", 1)
        second == indexFrom(s, ".", first + 1)
    IN  <<SubSeq(s, 1, first - 1), SubSeq(s, first + 1, second - 1)>>

\* whether a constructor of ./clarity may refuse its argument with an Error of
\* its own: a decimal numeral is always taken by uintCV, a signed one by intCV;
\* nothing here decides what they and the principal constructors do otherwise
isNumeral(s) == Len(s) > 0 /\ \A k \in 1..Len(s) : s[k] \in Digits
isSignedNumeral(s) == isNumeral(s) \/ (Len(s) > 1 /\ s[1] = "-" /\ isNumeral(Tail(s)))
constructorMayThrow(id, s) ==
    CASE id = ClarityAbiTypeUInt128 -> ~isNumeral(s)
      [] id = ClarityAbiTypeInt128 -> ~isSignedNumeral(s)
      [] id = ClarityAbiTypePrincipal -> TRUE
      [] OTHER -> FALSE
\* what a call of such a constructor can end in
Constructed(id, value, arguments) ==
    {Returns(value, arguments)}
    \cup IF constructorMayThrow(id, arguments[1])
         THEN {Throws("Error", "constructor")}
         ELSE {}

\* lines 143-146: the bool case
encodeBoolTruthy(s) ==
    IF s = StringFalse \/ s = StringZero THEN Returns(falseCV, <<>>)
    ELSE Returns(trueCV, <<>>)
encodeBool(s) ==
    IF s = StringFalse \/ s = StringZero THEN Returns(falseCV, <<>>)
    ELSE IF s = StringTrue \/ s = StringOne THEN Returns(trueCV, <<>>)
    ELSE Throws("Error", "Unexpected Clarity bool value")

\* lines 128-169: the set of outcomes a call can have
encodeClarityValue(typeOrUnion, s) ==
    LET union == IF "id" \in DOMAIN typeOrUnion
                 THEN typeOrUnion
                 ELSE getTypeUnion(typeOrUnion)
    IN  CASE union.id = ClarityAbiTypeUInt128 -> Constructed(union.id, uintCV(s), <<s>>)
          [] union.id = ClarityAbiTypeInt128 -> Constructed(union.id, intCV(s), <<s>>)
          [] union.id = ClarityAbiTypeBool -> {encodeBool(s)}
          [] union.id = ClarityAbiTypePrincipal ->
                IF includes(s, ".")
                THEN Constructed(union.id, contractPrincipalCV, splitFirstTwo(s))
                ELSE Constructed(union.id, standardPrincipalCV, <<s>>)
          [] union.id = ClarityAbiTypeNone -> {Returns(noneCV, <<>>)}
          [] union.id = ClarityAbiTypeBuffer -> {Returns(bufferCV(Len(s)), <<s>>)}
          [] union.id \in {ClarityAbiTypeResponse, ClarityAbiTypeOptional,
                           ClarityAbiTypeTuple, ClarityAbiTypeList} ->
                {Throws("NotImplementedError", "Unsupported encoding for Clarity type")}
          [] OTHER -> {Throws("Error", "Unexpected Clarity type ID")}

EncodeInit ==
    /\ input \in EncodeInputs
    /\ valString \in EncodeStrings
    /\ epc = "call"
    /\ encoded = [kind |-> "none"]
    /\ MatchIdle
    /\ ValidateIdle
    /\ BuilderIdle
    /\ MultiSigIdle

ApplyEncodeClarityValue ==
    /\ epc = "call"
    /\ encoded' \in encodeClarityValue(input, valString)
    /\ epc' = "done"
    /\ UNCHANGED <<input, valString, matchVars, validateVars, builderVars, multiSigVars>>

EncodeNext == ApplyEncodeClarityValue

EncodeSpec == EncodeInit /\ [][EncodeNext]_vars

(***************************************************************************)
(* MultiSigSpec: a multi-signer spending condition and the operations the  *)
(* signer applies to it (the authorization model and signer of ./signer    *)
(* and ./authorization: signing rounds appending fields, finalization).    *)
(***************************************************************************)
MaxThreshold == 2    \* thresholds: 1..MaxThreshold
MaxFields == 3       \* public-key fields appended while fewer fields than this

Keys == {"key1", "key2", "key3"}
signatureField(key) == [kind |-> "signature", key |-> key]
publicKeyField(key) == [kind |-> "publicKey", key |-> key]
\* the number of signature slots filled
signatureCount(fs) == Cardinality({j \in 1..Len(fs) : fs[j].kind = "signature"})
\* terminal state: filled-count == threshold
thresholdMetOrOneShort(fs, k) == signatureCount(fs) >= k - 1
thresholdMet(fs, k) == signatureCount(fs) = k

MultiSigInit ==
    /\ threshold \in 1..MaxThreshold
    /\ fields = <<>>
    /\ appended = <<>>
    /\ terminal = FALSE
    /\ lastCall = [operation |-> "", error |-> ""]
    /\ MatchIdle
    /\ ValidateIdle
    /\ BuilderIdle
    /\ EncodeIdle

\* a signing round: the signature is appended to the fields; with no empty
\* slot left the round raises NoSlotAvailable
SignRound ==
    /\ \E key \in Keys :
          IF signatureCount(fields) >= threshold
          THEN /\ lastCall' = [operation |-> "sign", error |-> "NoSlotAvailable"]
               /\ UNCHANGED <<fields, appended>>
          ELSE /\ fields' = Append(fields, signatureField(key))
               /\ appended' = Append(appended, signatureField(key))
               /\ lastCall' = [operation |-> "sign", error |-> ""]
    /\ UNCHANGED <<threshold, terminal, matchVars, validateVars, builderVars, encodeVars>>

\* the public key of a participant that does not sign is appended
AppendPublicKey ==
    /\ ~terminal
    /\ Len(fields) < MaxFields
    /\ \E key \in Keys :
          /\ fields' = Append(fields, publicKeyField(key))
          /\ appended' = Append(appended, publicKeyField(key))
    /\ lastCall' = [operation |-> "appendPublicKey", error |-> ""]
    /\ UNCHANGED <<threshold, terminal, matchVars, validateVars, builderVars, encodeVars>>

\* finalization: refused with ThresholdNotMet before threshold signatures are
\* present
Finalize ==
    /\ ~terminal
    /\ IF thresholdMet(fields, threshold)
       THEN /\ terminal' = TRUE
            /\ lastCall' = [operation |-> "finalize", error |-> ""]
       ELSE /\ terminal' = terminal
            /\ lastCall' = [operation |-> "finalize", error |-> "ThresholdNotMet"]
    /\ UNCHANGED <<threshold, fields, appended, matchVars, validateVars, builderVars,
                   encodeVars>>

MultiSigNext ==
    \/ SignRound
    \/ AppendPublicKey
    \/ Finalize

MultiSigSpec == MultiSigInit /\ [][MultiSigNext]_vars

(***************************************************************************)
(* Properties of validateContractCall (checked under Spec).                *)
(***************************************************************************)
\* positions in abi.functions of the functions named like the payload's
NamedLikePayload ==
    {k \in 1..Len(abi.functions) : abi.functions[k].name = payload.functionName.content}
\* the function the call resolves to, when there is exactly one
ResolvedFunction == abi.functions[CHOOSE k \in NamedLikePayload : TRUE]
Resolved == Cardinality(NamedLikePayload) = 1
CountsAgree == Len(payload.functionArgs) = Len(ResolvedFunction.args)
\* 0-based positions whose argument does not match the declared type
Mismatches ==
    {k \in 0..(Len(payload.functionArgs) - 1) :
        ~matchType(payload.functionArgs[k + 1], ResolvedFunction.args[k + 1].type)}
Smallest(S) == CHOOSE k \in S : \A m \in S : k <= m

\* C1: validateContractCall returns true exactly when one function carries the
\* payload's function name, the argument counts agree and every argument matches
\* its declared type; otherwise it throws; it never returns anything but true.
C1_ReturnsTrueIffAllMatch ==
    Finished =>
        /\ (pc = "returned") = (result.kind = "true")
        /\ (pc = "thrown") = (result.kind = "error")
        /\ (result.kind = "true") = (Resolved /\ CountsAgree /\ Mismatches = {})

C1_Witness ==
    /\ pc = "returned"
    /\ result.kind = "true"
    /\ Len(abi.functions) = 2
    /\ payload.functionArgs = <<uintCV(10), trueCV>>

\* C2: with the function resolved and the counts equal, the type error is
\* raised for the smallest failing position, and no later argument is examined.
C2_FailFast ==
    (Resolved /\ CountsAgree /\ Mismatches # {}) =>
        /\ \A k \in 1..Len(examined) : examined[k] = k - 1 /\ examined[k] <= Smallest(Mismatches)
        /\ Finished =>
              /\ result.kind = "error"
              /\ result.error = "ArgumentType"
              /\ result.argument = Smallest(Mismatches) + 1
              /\ Len(examined) = Smallest(Mismatches) + 1

C2_Witness ==
    /\ pc = "thrown"
    /\ result.kind = "error"
    /\ result.error = "ArgumentType"
    /\ Resolved /\ CountsAgree
    /\ Cardinality(Mismatches) = 2
    /\ examined = <<0>>

\* the case of C3: the function declares (uint128, bool), the call passes
\* (Int128(10), BoolTrue)
C3_Case ==
    /\ Finished
    /\ Resolved
    /\ ResolvedFunction.args = AbiArgs(<<AbiPrimitive("uint128"), AbiPrimitive("bool")>>)
    /\ payload.functionArgs = <<intCV(10), trueCV>>

\* C3 as stated: the type error names the failing argument as index 0, with
\* expected type string "uint" and actual type string "int".
C3_ReportsIndexZero ==
    C3_Case =>
        /\ result.kind = "error"
        /\ result.error = "ArgumentType"
        /\ result.argument = 0
        /\ result.expected = "uint"
        /\ result.actual = "int"

\* C3 amended: the type error names the failing argument (index 0) by its
\* 1-based position, argument 1, with expected "uint" and actual "int".
C3_ReportsArgumentOne ==
    C3_Case =>
        /\ result.kind = "error"
        /\ result.error = "ArgumentType"
        /\ result.argument = 1
        /\ result.expected = "uint"
        /\ result.actual = "int"

C3_Witness ==
    /\ C3_Case
    /\ pc = "thrown"
    /\ examined = <<0>>

\* C4: a differing argument count raises the argument-count error, carrying the
\* declared and the received count, before any argument type is matched.
C4_CountErrorFirst ==
    (Resolved /\ ~CountsAgree) =>
        /\ examined = <<>>
        /\ Finished =>
              /\ result.kind = "error"
              /\ result.error = "ArgumentCount"
              /\ result.expected = Len(ResolvedFunction.args)
              /\ result.received = Len(payload.functionArgs)

\* a count error where a supplied argument also has the wrong type
C4_Witness ==
    /\ pc = "thrown"
    /\ result.kind = "error"
    /\ result.error = "ArgumentCount"
    /\ Len(payload.functionArgs) = 1
    /\ Len(ResolvedFunction.args) = 2
    /\ ~matchType(payload.functionArgs[1], ResolvedFunction.args[1].type)

\* C5: no function of that name raises function-not-found, several raise the
\* malformed-ABI error; in both cases neither the argument count nor any
\* argument type has been checked.
C5_ResolutionErrorsFirst ==
    ~Resolved =>
        /\ ~countChecked
        /\ examined = <<>>
        /\ Finished =>
              /\ result.kind = "error"
              /\ (NamedLikePayload = {}) => result.error = "FunctionNotFound"
              /\ (NamedLikePayload # {}) => result.error = "MalformedAbi"

C5_Witness ==
    /\ pc = "thrown"
    /\ result.kind = "error"
    /\ result.error = "MalformedAbi"
    /\ Cardinality(NamedLikePayload) = 2
    /\ Len(payload.functionArgs) # Len(abi.functions[1].args)

\* C8: `(buff max-len)` declares a maximum length: a call whose arguments are
\* Buffers no longer than the declared max-len passes validation.
C8_BufferUpToMaxLenAccepted ==
    ( /\ Finished
      /\ Resolved
      /\ CountsAgree
      /\ \A k \in 1..Len(payload.functionArgs) :
            /\ payload.functionArgs[k].type = "Buffer"
            /\ isClarityAbiBuffer(ResolvedFunction.args[k].type)
            /\ Len(payload.functionArgs[k].buffer) <= ResolvedFunction.args[k].type.buffer.length )
    => result.kind = "true"

(***************************************************************************)
(* Properties of matchType (checked under MatchSpec).                      *)
(***************************************************************************)
\* C6: a Tuple value matches an ABI tuple type exactly when every declared
\* field name is present in the value with a value matching the declared field
\* type; fields the type does not declare are ignored.
C6_TupleSubsetCheck ==
    (mpc = "done" /\ cv.type = "Tuple" /\ isClarityAbiTuple(abiType)) =>
        matched = (\A k \in 1..Len(abiType.tuple) :
                      /\ abiType.tuple[k].name \in DOMAIN cv.data
                      /\ matchType(cv.data[abiType.tuple[k].name], abiType.tuple[k].type))

C10_DeployAndCallEstimateThenSign ==
    ( /\ builder \in {"makeSmartContractDeploy", "makeContractCall"}
      /\ feeMissing(options)
      /\ bpc = "done"
      /\ ~(outcome.state = "rejected" /\ outcome.error = "fee request failed") )
    => /\ outcome.state = "resolved"
       /\ feeRequests = 1
       /\ setFeeCalls = 1
       /\ transaction.signed
       /\ transaction.signedBy = SenderKey
       /\ transaction.payloadType = PayloadTypeOf(builder)

\* the builder's promise was rejected because the fee request itself failed
FeeRequestFailed == outcome.state = "rejected" /\ outcome.error = "fee request failed"
\* makeContractCall was handed an ABI in options.validateWithAbi
ValidationRequested ==
    /\ builder = "makeContractCall"
    /\ options.defined
    /\ "validateWithAbi" \in DOMAIN options.object
\* the function arguments match, one by one, the arguments CallAbi declares
ArgumentsMatchAbi ==
    LET declared == CallAbi.functions[1].args
    IN  /\ Len(functionArgs) = Len(declared)
        /\ \A k \in 1..Len(declared) : matchType(functionArgs[k], declared[k].type)

\* C11: makeContractCall called with validateWithAbi validates the function
\* arguments against the ABI exactly once before it signs, and with arguments
\* that do not match the ABI it ends rejected, without a signed transaction.
C11_ValidatesOnceBeforeSigning ==
    ValidationRequested =>
        /\ (transaction.built /\ transaction.signed) => abiValidations = 1
        /\ (bpc = "done" /\ ~ArgumentsMatchAbi) =>
              /\ outcome.state = "rejected"
              /\ ~transaction.signed

\* C12: in every builder the origin signature covers the final fee and nonce:
\* a signed transaction has had its one setFee (when the fee was estimated)
\* before the signature, the builder is finished, and the fee and nonce are
\* still the ones that were signed.
C12_SignedAfterFeeAndNonceFinal ==
    (builder \in Builders /\ transaction.built /\ transaction.signed) =>
        /\ bpc = "done"
        /\ setFeeCalls = (IF feeMissing(options) THEN 1 ELSE 0)
        /\ transaction.signedFee = transaction.fee
        /\ transaction.signedNonce = transaction.nonce

C12_Witness ==
    /\ builder = "makeSTXTokenTransfer"
    /\ options.defined
    /\ "nonce" \in DOMAIN options.object
    /\ bpc = "done"
    /\ transaction.signed
    /\ setFeeCalls = 1
    /\ transaction.fee > 0
    /\ transaction.signedFee = transaction.fee
    /\ transaction.signedNonce = 1

\* C13: a finished builder whose options carried a fee made no fee request and
\* no setFee, and the transaction's fee is the supplied one; a finished builder
\* whose options carried no fee made exactly one fee request and, unless that
\* request failed, the transaction's fee is the estimate it produced.
C13_FeeOptionDecidesEstimate ==
    (builder \in Builders /\ bpc = "done") =>
        IF feeMissing(options)
        THEN /\ feeRequests = 1
             /\ ~FeeRequestFailed =>
                   /\ estimate.answered
                   /\ setFeeCalls = 1
                   /\ transaction.fee = estimate.txFee
        ELSE /\ feeRequests = 0
             /\ setFeeCalls = 0
             /\ transaction.fee = options.object.fee

Supplied(name, default) ==
    IF options.defined /\ name \in DOMAIN options.object
    THEN options.object[name]
    ELSE default

\* C17: the transaction every builder creates carries options.anchorMode, and
\* AnchorMode.Any when the options give none -- makeSTXTokenTransfer included.
C17_AnchorModeFromOptions ==
    (builder \in Builders /\ transaction.built) =>
        transaction.anchorMode = Supplied("anchorMode", "Any")

C17_Witness ==
    /\ builder = "makeSTXTokenTransfer"
    /\ options.defined
    /\ "anchorMode" \in DOMAIN options.object
    /\ options.object.anchorMode = "OnChainOnly"
    /\ bpc = "done"
    /\ transaction.signed
    /\ transaction.anchorMode = "OnChainOnly"

\* C18: the transaction's post-condition list is options.postConditions, same
\* order and multiplicity, and empty when the option is absent or empty; and no
\* step of a builder changes the caller's options.
C18_PostConditionsAsSupplied ==
    /\ [](builder \in Builders /\ transaction.built
            => transaction.postConditions = Supplied("postConditions", <<>>))
    /\ [][options' = options]_vars

C18_Witness ==
    /\ builder \in Builders
    /\ options.defined
    /\ "postConditions" \in DOMAIN options.object
    /\ options.object.postConditions = <<"stxPostCondition", "fungiblePostCondition">>
    /\ bpc = "done"
    /\ transaction.signed
    /\ transaction.postConditions = <<"stxPostCondition", "fungiblePostCondition">>

C20_OptionalMatching ==
    mpc = "done" =>
        /\ cv.type = "OptionalNone" =>
              matched = (abiType = AbiPrimitive("none") \/ isClarityAbiOptional(abiType))
        /\ cv.type = "OptionalSome" =>
              /\ matched = ( /\ isClarityAbiOptional(abiType)
                             /\ matchType(cv.value, abiType.optional) )
              /\ abiType = AbiPrimitive("none") => ~matched

\* none against (optional int128)
C20_Witness ==
    /\ mpc = "done"
    /\ cv = noneCV
    /\ abiType = AbiOptional(AbiPrimitive("int128"))
    /\ matched

(***************************************************************************)
(* Properties of encodeClarityValue (checked under EncodeSpec).            *)
(***************************************************************************)
\* the id of the type the call was made with
InputId == IF "id" \in DOMAIN input THEN input.id ELSE getTypeUnion(input).id

C16_TerminalOnlyAtThreshold ==
    /\ [](/\ terminal => signatureCount(fields) = threshold
          /\ fields = appended
          /\ (lastCall.operation = "finalize" /\ signatureCount(fields) = threshold - 1) =>
                /\ lastCall.error = "ThresholdNotMet"
                /\ ~terminal)
    /\ [][/\ Len(fields') >= Len(fields)
          /\ SubSeq(fields', 1, Len(fields)) = fields]_vars

\* threshold 2, finalization refused after one signature
C16_Witness ==
    /\ threshold = MaxThreshold
    /\ signatureCount(fields) = threshold - 1
    /\ lastCall = [operation |-> "finalize", error |-> "ThresholdNotMet"]
    /\ ~terminal

(***************************************************************************)
(* Properties of matchType on response values (checked under MatchSpec).   *)
(***************************************************************************)
\* C21: against an ABI response type a ResponseOk value matches exactly when
\* its inner value matches the declared ok type, and the answer is the same for
\* every declared error type; a ResponseErr value matches exactly when its
\* inner value matches the declared error type, and the answer is the same for
\* every declared ok type.
C21_ResponseBranchOnly ==
    (mpc = "done" /\ isClarityAbiResponse(abiType)) =>
        /\ cv.type = "ResponseOk" =>
              /\ matched = matchType(cv.value, abiType.response.ok)
              /\ \A other \in ChildTypes :
                    matchType(cv, AbiResponse(abiType.response.ok, other)) = matched
        /\ cv.type = "ResponseErr" =>
              /\ matched = matchType(cv.value, abiType.response.error)
              /\ \A other \in ChildTypes :
                    matchType(cv, AbiResponse(other, abiType.response.error)) = matched

\* (ok true) against (response bool uint128): the error type does not match
\* the inner value and the value matches all the same
C21_Witness ==
    /\ mpc = "done"
    /\ cv = responseOkCV(trueCV)
    /\ abiType = AbiResponse(AbiPrimitive("bool"), AbiPrimitive("uint128"))
    /\ matched

(***************************************************************************)
(* Properties of repeated validation (checked under RepeatSpec).           *)
(***************************************************************************)
\* C22: no step of validateContractCall, the matchType calls it makes
\* included, changes the payload, its argument values or the ABI, whether the
\* call returns or throws -- a tuple argument keeps all its fields -- and a
\* second validation of the same payload ends as the first did.
C22_ArgumentsLeftUnchanged ==
    /\ [][payload' = payload /\ abi' = abi]_vars
    /\ []((run > 1 /\ Finished) => result = firstResult)

\* a payload with the tuple {a, b} validated twice against (tuple (a uint) (b
\* bool)): both calls return true and the tuple still has both fields
C22_Witness ==
    /\ run > 1
    /\ Finished
    /\ result = [kind |-> "true"]
    /\ firstResult = [kind |-> "true"]
    /\ Len(payload.functionArgs) > 0
    /\ payload.functionArgs[1].type = "Tuple"
    /\ DOMAIN payload.functionArgs[1].data = {"a", "b"}
    /\ Len(abi.functions[1].args[1].type.tuple) > 1

====
